---- MODULE Spec2Model ----
(***************************************************************************)
(* Model of the expense tracker (src/expense.py): one Excel container with *)
(* an Expenses and a Budgets sheet, the four mutations that rewrite the    *)
(* whole container, and the two views the script renders from the loaded   *)
(* tables.                                                                 *)
(*                                                                         *)
(* Text is a sequence of one-character strings, so that strip, lower,      *)
(* capitalize, float() and int() are computed and not assumed.  A          *)
(* timestamp is [y, m, d, hh]; hh = 0 is midnight.  A float is modelled by *)
(* an integer.                                                             *)
(***************************************************************************)
EXTENDS Integers, Sequences, FiniteSets, TLC

VARIABLES
    fileExpCols,  \* column names of the stored Expenses sheet, in order
    fileExp,      \* rows of the stored Expenses sheet, in order
    fileBudCols,  \* column names of the stored Budgets sheet, in order
    fileBud,      \* rows of the stored Budgets sheet, in order
    call,         \* the last call made: its name and its arguments
    result,       \* how the last call ended: "ok" or the exception raised
    saved,        \* whether the last call reached save_dataframes
    removed,      \* how many loaded rows the last delete call filtered out
    view,         \* what the last script run rendered (summary, daily view)
    procs,        \* SpecConc: the two writers, each inside one mutation
    overlap       \* SpecConc: whether the two mutations have interleaved

vars ==
    <<fileExpCols, fileExp, fileBudCols, fileBud, call, result, saved, removed,
      view, procs, overlap>>

----------------------------------------------------------------------------
(* Bounds *)

MaxExpenses == 2
MaxBudgets == 2

----------------------------------------------------------------------------
(* Text *)

UpperChars ==
    <<"A", "B", "C", "D", "E", "F", "G", "H", "I", "J", "K", "L", "M",
      "N", "O", "P", "Q", "R", "S", "T", "U", "V", "W", "X", "Y", "Z">>

LowerChars ==
    <<"a", "b", "c", "d", "e", "f", "g", "h", "i", "j", "k", "l", "m",
      "n", "o", "p", "q", "r", "s", "t", "u", "v", "w", "x", "y", "z">>

ToLower ==
    [c \in {UpperChars[i] : i \in 1..Len(UpperChars)} |->
        LowerChars[CHOOSE i \in 1..Len(UpperChars) : UpperChars[i] = c]]

ToUpper ==
    [c \in {LowerChars[i] : i \in 1..Len(LowerChars)} |->
        UpperChars[CHOOSE i \in 1..Len(LowerChars) : LowerChars[i] = c]]

LowerChar(c) == IF c \in DOMAIN ToLower THEN ToLower[c] ELSE c

UpperChar(c) == IF c \in DOMAIN ToUpper THEN ToUpper[c] ELSE c

\* str.lower()
Lower(s) == [i \in 1..Len(s) |-> LowerChar(s[i])]

RECURSIVE LStrip(_)
LStrip(s) == IF s # <<>> /\ Head(s) = " " THEN LStrip(Tail(s)) ELSE s

RECURSIVE RStrip(_)
RStrip(s) ==
    IF s # <<>> /\ s[Len(s)] = " " THEN RStrip(SubSeq(s, 1, Len(s) - 1)) ELSE s

\* str.strip()
Strip(s) == RStrip(LStrip(s))

\* str.capitalize(): first character upper-cased, the rest lower-cased
Capitalize(s) ==
    [i \in 1..Len(s) |-> IF i = 1 THEN UpperChar(s[i]) ELSE LowerChar(s[i])]

\* month.strip().lower()
MonthClean(month) == Lower(Strip(month))

Digits == <<"0", "1", "2", "3", "4", "5", "6", "7", "8", "9">>

IsDigit(c) == \E i \in 1..Len(Digits) : Digits[i] = c

DigitVal(c) == (CHOOSE i \in 1..Len(Digits) : Digits[i] = c) - 1

RECURSIVE NatOf(_)
NatOf(s) == IF s = <<>> THEN 0 ELSE 10 * NatOf(SubSeq(s, 1, Len(s) - 1)) + DigitVal(s[Len(s)])

\* The text of a whole number, with an optional sign.
IsNumeric(s) ==
    LET body == IF s # <<>> /\ Head(s) = "-" THEN Tail(s) ELSE s
    IN  body # <<>> /\ \A i \in 1..Len(body) : IsDigit(body[i])

NumberOf(s) ==
    IF Head(s) = "-" THEN 0 - NatOf(Tail(s)) ELSE NatOf(s)

\* float(x): ValueError on text that is no number; a negative number is a number.
FloatOf(s) == IF IsNumeric(s) THEN [ok |-> TRUE, val |-> NumberOf(s)]
              ELSE [ok |-> FALSE, val |-> 0]

\* int(x): ValueError on text that is no whole number.
IntOf(s) == IF IsNumeric(s) THEN [ok |-> TRUE, val |-> NumberOf(s)]
            ELSE [ok |-> FALSE, val |-> 0]

----------------------------------------------------------------------------
(* Dates *)

DaysIn(m) == IF m \in {4, 6, 9, 11} THEN 30 ELSE IF m = 2 THEN 29 ELSE 31

\* Whether pd.to_datetime can parse the value.
Parseable(date) ==
    /\ date.m \in 1..12
    /\ date.d \in 1..DaysIn(date.m)
    /\ date.hh \in 0..23

MonthNames ==
    << <<"J", "a", "n", "u", "a", "r", "y">>,
       <<"F", "e", "b", "r", "u", "a", "r", "y">>,
       <<"M", "a", "r", "c", "h">>,
       <<"A", "p", "r", "i", "l">>,
       <<"M", "a", "y">>,
       <<"J", "u", "n", "e">>,
       <<"J", "u", "l", "y">>,
       <<"A", "u", "g", "u", "s", "t">>,
       <<"S", "e", "p", "t", "e", "m", "b", "e", "r">>,
       <<"O", "c", "t", "o", "b", "e", "r">>,
       <<"N", "o", "v", "e", "m", "b", "e", "r">>,
       <<"D", "e", "c", "e", "m", "b", "e", "r">> >>

\* Series.dt.month_name() / strftime("%B")
MonthName(m) == MonthNames[m]

\* Series.dt.to_period("M").astype(str), e.g. "2024-03"
YearMonthOf(date) == <<date.y, date.m>>

\* strftime("%Y-%m-%d"): the time of day is not rendered
DateStr(date) == <<date.y, date.m, date.d>>

\* pd.to_datetime of a datetime.date: midnight of that day
Midnight(day) == [y |-> day.y, m |-> day.m, d |-> day.d, hh |-> 0]

----------------------------------------------------------------------------
(* Cells *)

\* A blank cell, and the text "nan", read back as NaN; NaN is written as a
\* blank cell.
NaN == "<NaN>"

ReadCell(text) == IF text \in {"", "nan"} THEN NaN ELSE text

WriteCell(text) == IF text = NaN THEN "" ELSE text

\* Series.astype(str)
AsStr(text) == IF text = NaN THEN "nan" ELSE text

\* The value of a cell of a column a row does not have
Blank == <<>>

BaseCols == <<"Date", "Category", "Description", "Amount">>

HasCol(cols, c) == \E i \in 1..Len(cols) : cols[i] = c

----------------------------------------------------------------------------
(* The container *)

\* initialize_excel_file: the two empty sheets of a new container
NewBudgetCols ==
    << <<"M", "o", "n", "t", "h">>, <<"Y", "e", "a", "r">>,
       <<"B", "u", "d", "g", "e", "t">> >>

\* load_expenses.  An empty sheet is returned as read: its Date column is
\* not a datetime column and no YearMonth column is attached.  Otherwise
\* the rows whose date does not parse are dropped and YearMonth is
\* computed for the rows that stay.
LoadExpenses(cols, rows) ==
    IF rows = <<>>
    THEN [cols |-> cols, rows |-> <<>>, datetime |-> FALSE]
    ELSE LET kept == SelectSeq(rows, LAMBDA r : Parseable(r.date))
         IN  [cols |-> IF HasCol(cols, "YearMonth") THEN cols
                       ELSE Append(cols, "YearMonth"),
              rows |-> [i \in 1..Len(kept) |->
                          [date |-> kept[i].date,
                           category |-> ReadCell(kept[i].category),
                           description |-> ReadCell(kept[i].description),
                           amount |-> kept[i].amount,
                           ym |-> YearMonthOf(kept[i].date)]],
              datetime |-> TRUE]

\* load_budgets: the column names are stripped and lower-cased; the cells
\* are returned as stored.
LoadBudgets(cols, rows) ==
    [cols |-> [i \in 1..Len(cols) |-> Lower(Strip(cols[i]))], rows |-> rows]

\* DataFrame.to_excel of the Expenses frame
WrittenExpenses(rows) ==
    [i \in 1..Len(rows) |->
        [date |-> rows[i].date,
         category |-> WriteCell(rows[i].category),
         description |-> WriteCell(rows[i].description),
         amount |-> rows[i].amount,
         ym |-> rows[i].ym]]

\* save_dataframes: both sheets are overwritten with the frames given
SaveDataframes(expenses_df, budgets_df) ==
    /\ fileExpCols' = expenses_df.cols
    /\ fileExp' = WrittenExpenses(expenses_df.rows)
    /\ fileBudCols' = budgets_df.cols
    /\ fileBud' = budgets_df.rows

\* No save: the container stays as it is.
NoSave == UNCHANGED <<fileExpCols, fileExp, fileBudCols, fileBud>>

----------------------------------------------------------------------------
(* Labels *)

\* The label of an expense row: date | category | description | amount
ExpenseLabel(row) ==
    [date |-> DateStr(row.date),
     category |-> AsStr(row.category),
     description |-> AsStr(row.description),
     amount |-> row.amount]

\* The label of a budget row: Capitalized(month) year - budget
BudgetLabel(row) ==
    [month |-> Capitalize(row.month), year |-> row.year, budget |-> row.budget]

----------------------------------------------------------------------------
(* Inputs *)

\* The calls tried: add_expense(date, category, description, amount)
ExpenseInputs ==
    { [date |-> [y |-> 2024, m |-> 3, d |-> 1, hh |-> 0], category |-> "Food",
       description |-> "lunch", amount |-> <<"1", "0", "0">>],
      \* the same day with a time of day: the same label, another timestamp
      [date |-> [y |-> 2024, m |-> 3, d |-> 1, hh |-> 13], category |-> "Food",
       description |-> "lunch", amount |-> <<"1", "0", "0">>],
      \* another month, no description, a negative amount
      [date |-> [y |-> 2024, m |-> 4, d |-> 2, hh |-> 0], category |-> "Transport",
       description |-> "", amount |-> <<"-", "5">>],
      \* a date that does not parse
      [date |-> [y |-> 2024, m |-> 13, d |-> 45, hh |-> 0], category |-> "Food",
       description |-> "lunch", amount |-> <<"5", "0">>],
      \* an amount that is no number
      [date |-> [y |-> 2024, m |-> 3, d |-> 1, hh |-> 0], category |-> "Food",
       description |-> "lunch", amount |-> <<"a", "b", "c">>] }

\* The calls tried: add_or_update_budget(month, year, budget)
BudgetInputs ==
    { [month |-> <<"m", "a", "r", "c", "h">>, year |-> <<"2", "0", "2", "4">>,
       budget |-> <<"1", "0", "0">>],
      \* the same month in another case and with blanks around it
      [month |-> <<" ", "M", "a", "r", "c", "h", " ">>,
       year |-> <<"2", "0", "2", "4">>, budget |-> <<"1", "5", "0">>],
      \* the same month of another year, a negative budget
      [month |-> <<"M", "A", "R", "C", "H">>, year |-> <<"2", "0", "2", "5">>,
       budget |-> <<"-", "1", "0">>],
      \* another month
      [month |-> <<"A", "p", "r", "i", "l">>, year |-> <<"2", "0", "2", "4">>,
       budget |-> <<"1", "0", "0">>],
      \* a year that is no whole number
      [month |-> <<"m", "a", "r", "c", "h">>, year |-> <<"2", "0", "x", "4">>,
       budget |-> <<"1", "0", "0">>],
      \* a budget that is no number
      [month |-> <<"m", "a", "r", "c", "h">>, year |-> <<"2", "0", "2", "4">>,
       budget |-> <<"a", "b", "c">>] }

\* The labels tried by delete_expense: those of the rows the calls above
\* can store
ExpenseLabelInputs ==
    { [date |-> DateStr(e.date), category |-> AsStr(ReadCell(e.category)),
       description |-> AsStr(ReadCell(e.description)),
       amount |-> FloatOf(e.amount).val] :
        e \in {x \in ExpenseInputs : Parseable(x.date) /\ FloatOf(x.amount).ok} }

\* The labels tried by delete_budget
BudgetLabelInputs ==
    { [month |-> Capitalize(MonthClean(b.month)), year |-> IntOf(b.year).val,
       budget |-> FloatOf(b.budget).val] :
        b \in {x \in BudgetInputs : IntOf(x.year).ok /\ FloatOf(x.budget).ok} }

Todays == { [y |-> 2024, m |-> 3, d |-> 10], [y |-> 2025, m |-> 3, d |-> 10] }

SelectedDates == { [y |-> 2024, m |-> 3, d |-> 1], [y |-> 2024, m |-> 3, d |-> 2] }

----------------------------------------------------------------------------
(* Expenses *)

NoView ==
    [summary |-> FALSE, budget |-> 0, spent |-> 0, remaining |-> 0,
     daily |-> "none", rows |-> <<>>, total |-> 0]

\* ConcatExpense with the result of the concat not kept
ConcatNotKept(df, new_row) ==
    [cols |-> df.cols, rows |-> df.rows, datetime |-> df.datetime]

\* pd.concat([df, pd.DataFrame([new_row])], ignore_index=True): the new row
\* has no value in a column only the loaded frame has.
ConcatExpense(df, new_row) ==
    [cols |-> df.cols, rows |-> Append(df.rows, new_row), datetime |-> TRUE]

\* new_row of add_expense: a row of the four columns
NewExpenseRow(date, category, description, amount) ==
    [date |-> date, category |-> category, description |-> description,
     amount |-> FloatOf(amount).val, ym |-> Blank]

\* add_expense saving the loaded frame before it converts its arguments
add_expense_saving_first(date, category, description, amount) ==
    LET df == LoadExpenses(fileExpCols, fileExp)
        new_row == NewExpenseRow(date, category, description, amount)
    IN  /\ Len(fileExp) < MaxExpenses
        /\ call' = [op |-> "add_expense", date |-> date, category |-> category,
                    description |-> description, amount |-> amount]
        /\ IF ~Parseable(date) \/ ~FloatOf(amount).ok
           THEN /\ result' = "ValueError"
                /\ saved' = TRUE
                /\ SaveDataframes(df, LoadBudgets(fileBudCols, fileBud))
           ELSE /\ result' = "ok"
                /\ saved' = TRUE
                /\ SaveDataframes(ConcatExpense(df, new_row),
                                  LoadBudgets(fileBudCols, fileBud))
        /\ removed' = 0
        /\ view' = NoView
        /\ UNCHANGED <<procs, overlap>>

add_expense(date, category, description, amount) ==
    LET df == LoadExpenses(fileExpCols, fileExp)
        new_row == NewExpenseRow(date, category, description, amount)
    IN  /\ Len(fileExp) < MaxExpenses
        /\ call' = [op |-> "add_expense", date |-> date, category |-> category,
                    description |-> description, amount |-> amount]
        /\ IF ~Parseable(date) \/ ~FloatOf(amount).ok
           THEN /\ result' = "ValueError"
                /\ saved' = FALSE
                /\ NoSave
           ELSE /\ result' = "ok"
                /\ saved' = TRUE
                /\ SaveDataframes(ConcatExpense(df, new_row),
                                  LoadBudgets(fileBudCols, fileBud))
        /\ removed' = 0
        /\ view' = NoView
        /\ UNCHANGED <<procs, overlap>>

AddExpense ==
    \E e \in ExpenseInputs :
        add_expense(e.date, e.category, e.description, e.amount)

\* KeepOtherExpenses dropping only the first row that has the label
KeepAllButFirstMatch(rows, selected) ==
    LET hits == {i \in 1..Len(rows) : ExpenseLabel(rows[i]) = selected}
    IN  IF hits = {} THEN rows
        ELSE LET f == CHOOSE k \in hits : \A j \in hits : k <= j
             IN  SubSeq(rows, 1, f - 1) \o SubSeq(rows, f + 1, Len(rows))

\* df[df["Label"] != selected]
KeepOtherExpenses(rows, selected) ==
    SelectSeq(rows, LAMBDA r : ExpenseLabel(r) # selected)

delete_expense(selected) ==
    LET df == LoadExpenses(fileExpCols, fileExp)
        \* astype(str) of Category and Description stays in the frame saved
        str_rows == [i \in 1..Len(df.rows) |->
                        [date |-> df.rows[i].date,
                         category |-> AsStr(df.rows[i].category),
                         description |-> AsStr(df.rows[i].description),
                         amount |-> df.rows[i].amount,
                         ym |-> df.rows[i].ym]]
        kept == KeepOtherExpenses(str_rows, selected)
    IN  /\ call' = [op |-> "delete_expense", selected |-> selected]
        /\ removed' = IF df.rows = <<>> THEN 0 ELSE Len(str_rows) - Len(kept)
        /\ IF ~df.datetime
           THEN \* .dt on the Date column of an empty sheet
                /\ result' = "AttributeError"
                /\ saved' = FALSE
                /\ NoSave
           ELSE IF df.rows = <<>>
           THEN \* apply(axis=1) of a frame without rows returns a frame,
                \* which cannot be set as the one column Label
                /\ result' = "ValueError"
                /\ saved' = FALSE
                /\ NoSave
           ELSE /\ result' = "ok"
                /\ saved' = TRUE
                /\ SaveDataframes([cols |-> df.cols, rows |-> kept,
                                   datetime |-> TRUE],
                                  LoadBudgets(fileBudCols, fileBud))
        /\ view' = NoView
        /\ UNCHANGED <<procs, overlap>>

DeleteExpense == \E selected \in ExpenseLabelInputs : delete_expense(selected)

----------------------------------------------------------------------------
(* Budgets *)

\* BudgetMatches with the stored month compared as stored, not cleaned
BudgetMatchesAsStored(rows, month_clean, year) ==
    { i \in 1..Len(rows) : rows[i].month = month_clean /\ rows[i].year = year }

\* The rows the loop of add_or_update_budget matches, in storage order
BudgetMatches(rows, month_clean, year) ==
    { i \in 1..Len(rows) :
        MonthClean(rows[i].month) = month_clean /\ rows[i].year = year }

\* The loop updates the first match and breaks; without a match the row
\* is appended with the cleaned month.
UpsertBudget(rows, month_clean, year, budget) ==
    LET found == BudgetMatches(rows, month_clean, year)
    IN  IF found # {}
        THEN LET i == CHOOSE k \in found : \A j \in found : k <= j
             IN  [rows EXCEPT ![i].budget = budget]
        ELSE Append(rows, [month |-> month_clean, year |-> year,
                           budget |-> budget])

add_or_update_budget(month, year, budget) ==
    LET budgets == LoadBudgets(fileBudCols, fileBud)
        month_clean == MonthClean(month)
        updated == UpsertBudget(budgets.rows, month_clean, IntOf(year).val,
                                FloatOf(budget).val)
    IN  /\ call' = [op |-> "add_or_update_budget", month |-> month,
                    year |-> year, budget |-> budget]
        /\ removed' = 0
        /\ IF ~IntOf(year).ok \/ ~FloatOf(budget).ok
           THEN /\ result' = "ValueError"
                /\ saved' = FALSE
                /\ NoSave
           ELSE /\ Len(updated) <= MaxBudgets
                /\ result' = "ok"
                /\ saved' = TRUE
                /\ SaveDataframes(LoadExpenses(fileExpCols, fileExp),
                                  [cols |-> budgets.cols, rows |-> updated])
        /\ view' = NoView
        /\ UNCHANGED <<procs, overlap>>

AddOrUpdateBudget ==
    \E b \in BudgetInputs : add_or_update_budget(b.month, b.year, b.budget)

\* budgets[budgets["Label"] != selected]
KeepOtherBudgets(rows, selected) ==
    SelectSeq(rows, LAMBDA r : BudgetLabel(r) # selected)

delete_budget(selected) ==
    LET budgets == LoadBudgets(fileBudCols, fileBud)
        kept == KeepOtherBudgets(budgets.rows, selected)
    IN  /\ call' = [op |-> "delete_budget", selected |-> selected]
        /\ removed' = Len(budgets.rows) - Len(kept)
        /\ IF budgets.rows = <<>>
           THEN \* apply(axis=1) of a frame without rows returns a frame,
                \* which cannot be set as the one column Label
                /\ result' = "ValueError"
                /\ saved' = FALSE
                /\ NoSave
           ELSE /\ result' = "ok"
                /\ saved' = TRUE
                /\ SaveDataframes(LoadExpenses(fileExpCols, fileExp),
                                  [cols |-> budgets.cols, rows |-> kept])
        /\ view' = NoView
        /\ UNCHANGED <<procs, overlap>>

DeleteBudget == \E selected \in BudgetLabelInputs : delete_budget(selected)

----------------------------------------------------------------------------
(* Views *)

RECURSIVE SumAmounts(_)
SumAmounts(rows) ==
    IF rows = <<>> THEN 0 ELSE Head(rows).amount + SumAmounts(Tail(rows))

RECURSIVE InsertDesc(_, _)
InsertDesc(sorted, r) ==
    IF sorted = <<>> THEN <<r>>
    ELSE IF Head(sorted).amount >= r.amount
         THEN <<Head(sorted)>> \o InsertDesc(Tail(sorted), r)
         ELSE <<r>> \o sorted

\* sort_values(by="Amount", ascending=False)
RECURSIVE SortDesc(_)
SortDesc(rows) ==
    IF rows = <<>> THEN <<>>
    ELSE InsertDesc(SortDesc(SubSeq(rows, 1, Len(rows) - 1)), rows[Len(rows)])

\* The sidebar: the budget is looked up by the stored month cell compared
\* with the lower-cased name of today's month.
CurrentBudget(budget_rows, today) ==
    LET budget_row == SelectSeq(budget_rows,
                          LAMBDA r : r.month = Lower(MonthName(today.m))
                                     /\ r.year = today.y)
    IN  IF budget_row # <<>> THEN budget_row[1].budget ELSE 0

CurrentSpent(rows, today) ==
    SumAmounts(SelectSeq(rows,
        LAMBDA r : MonthName(r.date.m) = MonthName(today.m)
                   /\ r.date.y = today.y))

\* The daily view: the rows whose timestamp equals the day picked
DailyRows(rows, selected_date) ==
    SelectSeq(rows, LAMBDA r : r.date = Midnight(selected_date))

\* One run of the script: both sheets are loaded and the views rendered.
Render(today, selected_date) ==
    LET df == LoadExpenses(fileExpCols, fileExp)
        budget_df == LoadBudgets(fileBudCols, fileBud)
        current_budget == CurrentBudget(budget_df.rows, today)
        current_spent == CurrentSpent(df.rows, today)
        daily_df == DailyRows(df.rows, selected_date)
    IN  /\ call' = [op |-> "render", today |-> today,
                    selected_date |-> selected_date]
        /\ result' = "ok"
        /\ saved' = FALSE
        /\ removed' = 0
        /\ NoSave
        /\ view' =
             IF df.rows = <<>> THEN NoView
             ELSE [summary |-> TRUE,
                   budget |-> current_budget,
                   spent |-> current_spent,
                   remaining |-> current_budget - current_spent,
                   daily |-> IF daily_df # <<>> THEN "table" ELSE "empty",
                   rows |-> SortDesc(daily_df),
                   total |-> SumAmounts(daily_df)]
        /\ UNCHANGED <<procs, overlap>>

RenderViews ==
    \E today \in Todays, selected_date \in SelectedDates :
        Render(today, selected_date)

----------------------------------------------------------------------------
(* The program *)

\* initialize_excel_file creates the container when there is none and
\* leaves an existing one as it is.
NewContainer ==
    [expCols |-> BaseCols, exp |-> <<>>, budCols |-> NewBudgetCols, bud |-> <<>>]

\* Containers that exist before the program starts: kept by hand, with a
\* date that does not parse and month cells as typed.
ExistingContainers ==
    { [expCols |-> BaseCols,
       exp |-> << [date |-> [y |-> 2024, m |-> 13, d |-> 45, hh |-> 0],
                   category |-> "Food", description |-> "lunch", amount |-> 50,
                   ym |-> Blank],
                  [date |-> [y |-> 2024, m |-> 3, d |-> 1, hh |-> 0],
                   category |-> "Food", description |-> "lunch", amount |-> 100,
                   ym |-> Blank] >>,
       budCols |-> NewBudgetCols,
       bud |-> << [month |-> <<"M", "a", "r", "c", "h">>, year |-> 2024,
                   budget |-> 100] >>],
      [expCols |-> BaseCols,
       exp |-> << [date |-> [y |-> 2024, m |-> 13, d |-> 45, hh |-> 0],
                   category |-> "Food", description |-> "lunch", amount |-> 50,
                   ym |-> Blank] >>,
       budCols |-> NewBudgetCols,
       bud |-> << >>] }

NoProcs == [p \in {1, 2} |-> [pc |-> "idle"]]

Init ==
    /\ \E c \in {NewContainer} \cup ExistingContainers :
          /\ fileExpCols = c.expCols
          /\ fileExp = c.exp
          /\ fileBudCols = c.budCols
          /\ fileBud = c.bud
    /\ call = [op |-> "initialize"]
    /\ result = "ok"
    /\ saved = FALSE
    /\ view = NoView
    /\ removed = 0
    /\ procs = NoProcs
    /\ overlap = FALSE

Next ==
    \/ AddExpense
    \/ DeleteExpense
    \/ AddOrUpdateBudget
    \/ DeleteBudget
    \/ RenderViews

Spec == Init /\ [][Next]_vars

\* The program started without a container: initialize creates it.
InitNew ==
    /\ fileExpCols = NewContainer.expCols
    /\ fileExp = NewContainer.exp
    /\ fileBudCols = NewContainer.budCols
    /\ fileBud = NewContainer.bud
    /\ call = [op |-> "initialize"]
    /\ result = "ok"
    /\ saved = FALSE
    /\ removed = 0
    /\ view = NoView
    /\ procs = NoProcs
    /\ overlap = FALSE

SpecNew == InitNew /\ [][Next]_vars

----------------------------------------------------------------------------
(* Two writers on one container.  Each runs one mutation; its two loads   *)
(* and its save are separate steps, and nothing locks the container.      *)

Other(p) == 3 - p

Busy(q) == procs[q].pc \in {"loaded_expenses", "loaded_budgets", "ready"}

Step(p, rec) ==
    /\ procs' = [procs EXCEPT ![p] = rec]
    /\ overlap' = (overlap \/ Busy(Other(p)))
    /\ UNCHANGED <<call, result, saved, removed, view>>

\* add_expense up to the concat: the Expenses sheet is loaded and the row
\* appended in memory
BeginAddExpense(p) ==
    /\ procs[p].pc = "idle"
    /\ \E e \in ExpenseInputs :
          LET df == LoadExpenses(fileExpCols, fileExp)
              new_row == NewExpenseRow(e.date, e.category, e.description, e.amount)
          IN  IF ~Parseable(e.date) \/ ~FloatOf(e.amount).ok
              THEN Step(p, [pc |-> "failed", op |-> "add_expense", input |-> e])
              ELSE Step(p, [pc |-> "loaded_expenses", op |-> "add_expense",
                            input |-> e, df |-> ConcatExpense(df, new_row)])
    /\ NoSave

\* add_or_update_budget up to the concat: the Budgets sheet is loaded and
\* the row updated or appended in memory
BeginAddOrUpdateBudget(p) ==
    /\ procs[p].pc = "idle"
    /\ \E b \in BudgetInputs :
          LET budgets == LoadBudgets(fileBudCols, fileBud)
              updated == UpsertBudget(budgets.rows, MonthClean(b.month),
                                      IntOf(b.year).val, FloatOf(b.budget).val)
          IN  IF ~IntOf(b.year).ok \/ ~FloatOf(b.budget).ok
              THEN Step(p, [pc |-> "failed", op |-> "add_or_update_budget",
                            input |-> b])
              ELSE Step(p, [pc |-> "loaded_budgets",
                            op |-> "add_or_update_budget", input |-> b,
                            budgets |-> [cols |-> budgets.cols, rows |-> updated]])
    /\ NoSave

\* The load_budgets() that add_expense passes to save_dataframes
LoadBudgetsForSave(p) ==
    /\ procs[p].pc = "loaded_expenses"
    /\ Step(p, [pc |-> "ready", op |-> procs[p].op, input |-> procs[p].input,
                df |-> procs[p].df,
                budgets |-> LoadBudgets(fileBudCols, fileBud)])
    /\ NoSave

\* The load_expenses() that add_or_update_budget passes to save_dataframes
LoadExpensesForSave(p) ==
    /\ procs[p].pc = "loaded_budgets"
    /\ Step(p, [pc |-> "ready", op |-> procs[p].op, input |-> procs[p].input,
                df |-> LoadExpenses(fileExpCols, fileExp),
                budgets |-> procs[p].budgets])
    /\ NoSave

\* save_dataframes: the whole container is overwritten with what was loaded
SaveContainer(p) ==
    /\ procs[p].pc = "ready"
    /\ Step(p, [pc |-> "done", op |-> procs[p].op, input |-> procs[p].input])
    /\ SaveDataframes(procs[p].df, procs[p].budgets)

NextConc ==
    \E p \in {1, 2} :
        \/ BeginAddExpense(p)
        \/ BeginAddOrUpdateBudget(p)
        \/ LoadBudgetsForSave(p)
        \/ LoadExpensesForSave(p)
        \/ SaveContainer(p)

SpecConc == InitNew /\ [][NextConc]_vars

----------------------------------------------------------------------------
(* Properties *)

BudgetKey(row) == <<MonthClean(row.month), row.year>>

RowsWithKey(key) == {i \in 1..Len(fileBud) : BudgetKey(fileBud[i]) = key}

\* C1: the Budgets sheet never holds two rows with the same (lower-cased,
\* stripped month, year), and right after add_or_update_budget(m, y, b)
\* has succeeded the one row of (cleaned m, y) holds budget b.
C1_BudgetUpsertUnique ==
    /\ \A i, j \in 1..Len(fileBud) :
          BudgetKey(fileBud[i]) = BudgetKey(fileBud[j]) => i = j
    /\ (call.op = "add_or_update_budget" /\ result = "ok") =>
          LET key == <<MonthClean(call.month), IntOf(call.year).val>>
          IN  /\ Cardinality(RowsWithKey(key)) = 1
              /\ \A i \in RowsWithKey(key) :
                    fileBud[i].budget = FloatOf(call.budget).val

\* C1 witness: the month was given with blanks and capitals, two budgets
\* are stored, and the row typed by hand as "March" took the new budget.
C1_Witness ==
    /\ call.op = "add_or_update_budget"
    /\ result = "ok"
    /\ call.month # MonthClean(call.month)
    /\ Len(fileBud) = 2
    /\ \E i \in 1..Len(fileBud) :
          /\ fileBud[i].month = <<"M", "a", "r", "c", "h">>
          /\ fileBud[i].budget = 150

Container == <<fileExpCols, fileExp, fileBudCols, fileBud>>

\* C2: a call of add_expense or add_or_update_budget that ends in an error
\* leaves the whole container, both sheets, as it was before the call.
C2_FailedAddKeepsContainer ==
    [][(call'.op \in {"add_expense", "add_or_update_budget"} /\ result' # "ok")
          => Container' = Container]_vars

\* C2 witness: add_or_update_budget has failed on its budget argument
\* although a stored row matches its month and year, with expenses stored.
C2_Witness ==
    /\ call.op = "add_or_update_budget"
    /\ result = "ValueError"
    /\ IntOf(call.year).ok
    /\ BudgetMatches(fileBud, MonthClean(call.month), IntOf(call.year).val) # {}
    /\ fileExp # <<>>

\* C3: a negative amount or budget is refused with an error, so that no
\* stored amount and no stored budget is negative.
C3_NegativeRefused ==
    /\ (call.op = "add_expense" /\ FloatOf(call.amount).ok
            /\ FloatOf(call.amount).val < 0) => result # "ok"
    /\ (call.op = "add_or_update_budget" /\ FloatOf(call.budget).ok
            /\ FloatOf(call.budget).val < 0) => result # "ok"
    /\ \A i \in 1..Len(fileExp) : fileExp[i].amount >= 0
    /\ \A i \in 1..Len(fileBud) : fileBud[i].budget >= 0

\* A stored expense row without the derived column
BaseRow(r) ==
    [date |-> r.date, category |-> r.category, description |-> r.description,
     amount |-> r.amount]

StoredExpenseRows(rows) == {BaseRow(rows[i]) : i \in 1..Len(rows)}

\* C4: add_or_update_budget and delete_budget leave the set of stored
\* expense rows as it was, rows whose date does not parse included.
C4_BudgetCallsKeepExpenses ==
    [][call'.op \in {"add_or_update_budget", "delete_budget"}
          => StoredExpenseRows(fileExp') = StoredExpenseRows(fileExp)]_vars

\* A loaded expense row as it renders: timestamp, category, description, amount
Rendered(r) ==
    [date |-> r.date, category |-> AsStr(r.category),
     description |-> AsStr(r.description), amount |-> r.amount]

LoadedExpenses(cols, rows) ==
    LET df == LoadExpenses(cols, rows)
    IN  [i \in 1..Len(df.rows) |-> Rendered(df.rows[i])]

\* Whether a rendered expense row has the label given
HasLabel(r, label) ==
    /\ <<r.date.y, r.date.m, r.date.d>> = label.date
    /\ r.category = label.category
    /\ r.description = label.description
    /\ r.amount = label.amount

\* C5: delete_expense and delete_budget called with a label that no row of
\* the loaded table has end without an error, leave the rows as they
\* were, the empty table included, and save.
C5_DeleteOfAbsentLabelIsNoOp ==
    [][/\ (call'.op = "delete_expense"
            /\ \A i \in 1..Len(LoadedExpenses(fileExpCols, fileExp)) :
                  ~HasLabel(LoadedExpenses(fileExpCols, fileExp)[i], call'.selected))
          => /\ result' = "ok"
             /\ saved'
             /\ LoadedExpenses(fileExpCols', fileExp')
                   = LoadedExpenses(fileExpCols, fileExp)
       /\ (call'.op = "delete_budget"
            /\ \A i \in 1..Len(fileBud) :
                  [month |-> Capitalize(fileBud[i].month),
                   year |-> fileBud[i].year,
                   budget |-> fileBud[i].budget] # call'.selected)
          => /\ result' = "ok"
             /\ saved'
             /\ fileBud' = fileBud]_vars

\* C6: delete_expense(label) removes every loaded row that renders to the
\* label, all duplicates included, and keeps every other loaded row, in
\* the same order.
C6_DeleteExpenseByLabel ==
    [][call'.op = "delete_expense"
          => LoadedExpenses(fileExpCols', fileExp')
               = SelectSeq(LoadedExpenses(fileExpCols, fileExp),
                           LAMBDA r : ~HasLabel(r, call'.selected))]_vars

\* C6 witness: one delete_expense call has removed two rows, which share
\* the label and differ in their time of day.
C6_Witness ==
    /\ call.op = "delete_expense"
    /\ result = "ok"
    /\ removed = 2

ParseableRows == SelectSeq(fileExp, LAMBDA r : Parseable(r.date))

\* The budget a case-insensitive lookup of today's month and year finds
BudgetOfPeriod(today) ==
    LET hits == {i \in 1..Len(fileBud) :
                    /\ Lower(fileBud[i].month) = Lower(MonthName(today.m))
                    /\ fileBud[i].year = today.y}
    IN  IF hits = {} THEN 0
        ELSE fileBud[CHOOSE k \in hits : \A j \in hits : k <= j].budget

SpentInPeriod(today) ==
    SumAmounts(SelectSeq(ParseableRows,
        LAMBDA r : r.date.m = today.m /\ r.date.y = today.y))

\* C7: whatever the two sheets hold, the empty Expenses sheet included, the
\* current-period summary is (b, s, b - s): s the sum of the amounts of
\* today's month and year, b the budget of today's month, compared
\* without regard to case, and year, or 0 without such a row.  (A sidebar
\* that shows no summary counts as zeros.)
C7_SummaryOfPeriod ==
    call.op = "render" =>
        /\ view.budget = BudgetOfPeriod(call.today)
        /\ view.spent = SpentInPeriod(call.today)
        /\ view.remaining = BudgetOfPeriod(call.today) - SpentInPeriod(call.today)

RowsOfDay(day) ==
    SelectSeq(ParseableRows, LAMBDA r : <<r.date.y, r.date.m, r.date.d>>
                                          = <<day.y, day.m, day.d>>)

\* C8: the daily view holds exactly the expenses of the calendar day
\* picked, whatever their time of day, by amount descending, with the
\* sum of their amounts; the empty set and 0 when the day has none.
C8_DailyViewOfDay ==
    call.op = "render" =>
        /\ Len(view.rows) = Len(RowsOfDay(call.selected_date))
        /\ {BaseRow(view.rows[i]) : i \in 1..Len(view.rows)}
             = StoredExpenseRows(RowsOfDay(call.selected_date))
        /\ \A i \in 1..(Len(view.rows) - 1) :
              view.rows[i].amount >= view.rows[i + 1].amount
        /\ view.total = SumAmounts(RowsOfDay(call.selected_date))

\* C9: the stored Expenses sheet has the columns Date, Category,
\* Description and Amount only, and no row stores a year_month value.
C9_YearMonthNotStored ==
    /\ fileExpCols = BaseCols
    /\ \A i \in 1..Len(fileExp) : fileExp[i].ym = Blank

\* The writers that have saved
Done == {p \in {1, 2} : procs[p].pc = "done"}

\* Whether the change writer p made is in the container: the expense row
\* it added, as often as writers added that row, or the budget it set.
ChangePresent(p) ==
    IF procs[p].op = "add_expense"
    THEN LET e == procs[p].input
             same == {q \in Done : procs[q].op = "add_expense"
                                   /\ procs[q].input = e}
             rows == {i \in 1..Len(fileExp) :
                        /\ fileExp[i].date = e.date
                        /\ fileExp[i].category = e.category
                        /\ fileExp[i].description = e.description
                        /\ fileExp[i].amount = FloatOf(e.amount).val}
         IN  Cardinality(rows) >= Cardinality(same)
    ELSE LET b == procs[p].input
         IN  \E i \in 1..Len(fileBud) :
                /\ BudgetKey(fileBud[i]) = <<MonthClean(b.month), IntOf(b.year).val>>
                /\ fileBud[i].budget = FloatOf(b.budget).val

\* Both writers set the budget of one (month, year): the later one stands.
SameBudgetKey ==
    /\ procs[1].op = "add_or_update_budget"
    /\ procs[2].op = "add_or_update_budget"
    /\ MonthClean(procs[1].input.month) = MonthClean(procs[2].input.month)
    /\ IntOf(procs[1].input.year).val = IntOf(procs[2].input.year).val

\* C10: when the two mutations run one after the other, without their
\* steps interleaving, the container holds the change of each.
C10_SequentialKeepsBoth ==
    (Done = {1, 2} /\ ~overlap /\ ~SameBudgetKey) =>
        \A p \in Done : ChangePresent(p)

\* C10 witness: the steps have interleaved, both writers have saved
\* without an error, and the container lacks the change of one of them.
C10_LostUpdate ==
    /\ Done = {1, 2}
    /\ overlap
    /\ ~SameBudgetKey
    /\ \E p \in Done : ~ChangePresent(p)

====
